---- MODULE Spec2Model ----
(***************************************************************************)
(* Model of the document-processing pipeline of error_detect:              *)
(*   DocumentProcessor (server/document_processor.py), LLMClient           *)
(*   (server/LLM_Client.py) and JsonOutputParser (model/Structure_model.py)*)
(*                                                                         *)
(* A Python str is a sequence of one-character strings.  A character that  *)
(* is not ASCII is written by its code point: "u3002" is the full-width    *)
(* period, "u6545" the first character of the label of a fault type.       *)
(***************************************************************************)
EXTENDS Integers, Sequences, FiniteSets, TLC

VARIABLES
    pc,                  \* position of the running operation
    max_context_length,  \* DocumentProcessor.max_context_length
    parsers,             \* DocumentProcessor.parsers: extension -> parser
    text,                \* argument of _chunk_text and of _split_sentences
    sentences,           \* list returned by _split_sentences
    chunks,              \* list returned by _chunk_text
    kg_data,             \* argument of _summarize_key_info
    summary,             \* string returned by _summarize_key_info
    file,                \* the document process_document is given
    api_key,             \* whether the environment sets API_KEY
    text_content,        \* process_document: the parsed text
    i,                   \* _extract_knowledge_graph: index of the next chunk (from 1)
    previous_context,    \* _extract_knowledge_graph: None (<<>>) or <<digest>>
    kg_results,          \* _extract_knowledge_graph: the results collected
    calls,               \* the calls made to LLMClient.extract_knowledge_graph
    response,            \* the reply of the model to the last call
    outcome              \* how process_document ended

chunkVars  == <<text, sentences>>
digestVars == <<kg_data, summary>>
pipeVars   == <<parsers, file, api_key, text_content, i, previous_context, kg_results,
               calls, response, outcome>>
vars == <<pc, max_context_length, chunks, chunkVars, digestVars, pipeVars>>

\* Optional[...]: None is <<>>, a value v is <<v>>
None == <<>>
Some(v) == <<v>>

----------------------------------------------------------------------------
(* Bounds of the model *)

\* number of pieces a text given to _chunk_text is made of
MaxPieces == 5
\* number of entries of a result given to _summarize_key_info
MaxEntries == 2
\* number of paragraphs of a document given to process_document
MaxParagraphs == 3
\* number of characters of a segment given to _split_sentences
MaxSegment == 5

----------------------------------------------------------------------------
(* Python str operations *)

Min(S) == CHOOSE x \in S : \A y \in S : x <= y
Max(S) == CHOOSE x \in S : \A y \in S : x >= y

Rep(c, n) == [k \in 1..n |-> c]

RECURSIVE Concat(_)
Concat(ss) == IF ss = <<>> THEN <<>> ELSE Head(ss) \o Concat(Tail(ss))

\* characters str.strip() removes: the characters str.isspace() holds for,
\* that is U+0009..U+000D, U+001C..U+0020, U+0085, U+00A0, U+1680,
\* U+2000..U+200A, U+2028, U+2029, U+202F, U+205F and U+3000
Whitespace ==
    {"\t", "\n", "u000B", "u000C", "\r", "u001C", "u001D", "u001E", "u001F", " ",
     "u0085", "u00A0", "u1680",
     "u2000", "u2001", "u2002", "u2003", "u2004", "u2005", "u2006", "u2007",
     "u2008", "u2009", "u200A",
     "u2028", "u2029", "u202F", "u205F", "u3000"}

\* str.strip()
strip(s) ==
    LET keep == {k \in 1..Len(s) : s[k] \notin Whitespace}
    IN  IF keep = {} THEN <<>> ELSE SubSeq(s, Min(keep), Max(keep))

\* str.split(sep): the pieces between the non-overlapping occurrences of sep,
\* found from the left
RECURSIVE split(_, _)
split(s, sep) ==
    LET hits == {k \in 1..(Len(s) - Len(sep) + 1) :
                    SubSeq(s, k, k + Len(sep) - 1) = sep}
    IN  IF hits = {} THEN <<s>>
        ELSE LET k == Min(hits)
             IN  <<SubSeq(s, 1, k - 1)>>
                   \o split(SubSeq(s, k + Len(sep), Len(s)), sep)

----------------------------------------------------------------------------
(* DocumentProcessor._split_sentences *)

\* the character class [.!?。！？]
SentenceEnd == {".", "!", "?", "u3002", "uFF01", "uFF1F"}

\* positions of the sentence-ending marks of s, in increasing order
MarkPositions(s) ==
    LET P == {k \in 1..Len(s) : s[k] \in SentenceEnd}
    IN  [n \in 1..Cardinality(P) |->
            CHOOSE p \in P : Cardinality({q \in P : q < p}) = n - 1]

\* re.split(r'[.!?。！？]', text): one piece more than there are marks
re_split(s) ==
    LET pos == MarkPositions(s)
        m   == Len(pos)
    IN  [n \in 1..(m + 1) |->
            SubSeq(s, IF n = 1 THEN 1 ELSE pos[n - 1] + 1,
                      IF n = m + 1 THEN Len(s) ELSE pos[n] - 1)]

\* re.findall(r'[.!?。！？]', text)
re_findall(s) ==
    LET pos == MarkPositions(s) IN [n \in 1..Len(pos) |-> s[pos[n]]]

\* variant: a piece that is empty or blank is kept, with its mark
RECURSIVE CleanFrom_keeping_blank(_, _, _)
CleanFrom_keeping_blank(pieces, punctuation_marks, n) ==
    IF n > Len(pieces) THEN <<>>
    ELSE <<IF n <= Len(punctuation_marks)
           THEN Append(strip(pieces[n]), punctuation_marks[n])
           ELSE strip(pieces[n])>>
           \o CleanFrom_keeping_blank(pieces, punctuation_marks, n + 1)

\* cleaned_sentences after the pieces n..Len(sentences) have been visited
RECURSIVE CleanFrom(_, _, _)
CleanFrom(pieces, punctuation_marks, n) ==
    IF n > Len(pieces) THEN <<>>
    ELSE LET sentence == pieces[n]
             cleaned  == IF n <= Len(punctuation_marks)
                         THEN Append(strip(sentence), punctuation_marks[n])
                         ELSE strip(sentence)
         IN  (IF strip(sentence) # <<>> THEN <<cleaned>> ELSE <<>>)
               \o CleanFrom(pieces, punctuation_marks, n + 1)

_split_sentences(s) ==
    LET cleaned_sentences == CleanFrom(re_split(s), re_findall(s), 1)
    IN  IF cleaned_sentences # <<>> THEN cleaned_sentences ELSE <<s>>

----------------------------------------------------------------------------
(* DocumentProcessor._chunk_text *)

\* a paragraph shorter than this is always merge-attempted
ShortParagraph == 100

\* "if current_chunk: chunks.append(current_chunk.strip())"
Flush(st) ==
    IF st.current_chunk # <<>>
    THEN Append(st.chunks, strip(st.current_chunk))
    ELSE st.chunks

\* the append-or-flush step the three branches of the loop share: unit joins
\* the buffer behind sep when the two lengths, without sep, fit the maximum
AppendOrFlush(st, unit, sep, max) ==
    IF Len(st.current_chunk) + Len(unit) <= max
    THEN [chunks |-> st.chunks, current_chunk |-> st.current_chunk \o sep \o unit]
    ELSE [chunks |-> Flush(st), current_chunk |-> unit]

RECURSIVE AddSentences(_, _, _)
AddSentences(st, units, max) ==
    IF units = <<>> THEN st
    ELSE AddSentences(AppendOrFlush(st, Head(units), <<" ">>, max),
                      Tail(units), max)

\* one iteration of "for paragraph in paragraphs"
AddParagraph(st, paragraph, max) ==
    IF Len(paragraph) < ShortParagraph
    THEN AppendOrFlush(st, paragraph, <<"\n", "\n">>, max)
    ELSE IF Len(paragraph) > max
    THEN AddSentences(st, _split_sentences(paragraph), max)
    ELSE AppendOrFlush(st, paragraph, <<"\n", "\n">>, max)

RECURSIVE AddParagraphs(_, _, _)
AddParagraphs(st, paragraphs, max) ==
    IF paragraphs = <<>> THEN st
    ELSE AddParagraphs(AddParagraph(st, Head(paragraphs), max),
                       Tail(paragraphs), max)

\* variant: a text of exactly the maximum is not returned as it is
_chunk_text_below_maximum(s, max) ==
    IF Len(s) < max THEN <<s>>
    ELSE Flush(AddParagraphs([chunks |-> <<>>, current_chunk |-> <<>>],
                             split(s, <<"\n", "\n">>), max))

_chunk_text(s, max) ==
    IF Len(s) <= max THEN <<s>>
    ELSE Flush(AddParagraphs([chunks |-> <<>>, current_chunk |-> <<>>],
                             split(s, <<"\n", "\n">>), max))

----------------------------------------------------------------------------
(* DocumentProcessor._summarize_key_info *)

\* A BearingFaultKnowledgeGraphEntry: each of the six facts is None or an
\* entity, of which the digest reads the name.
Facts == <<"fault_type", "cause", "signal_feature", "frequency",
           "diagnosis_method", "influencing_factor">>

NoFacts == [f \in {Facts[k] : k \in 1..Len(Facts)} |-> None]

\* the label of each fact, in the order of the six "if entry.<fact>:" tests
Label(fact) ==
    CASE fact = "fault_type"         -> <<"u6545", "u969C", "u7C7B", "u578B", ":", " ">>
      [] fact = "cause"              -> <<"u6545", "u969C", "u539F", "u56E0", ":", " ">>
      [] fact = "signal_feature"     -> <<"u4FE1", "u53F7", "u7279", "u5F81", ":", " ">>
      [] fact = "frequency"          -> <<"u7279", "u5F81", "u9891", "u7387", ":", " ">>
      [] fact = "diagnosis_method"   -> <<"u8BCA", "u65AD", "u65B9", "u6CD5", ":", " ">>
      [] fact = "influencing_factor" -> <<"u5F71", "u54CD", "u56E0", "u7D20", ":", " ">>

\* the sentinel returned for an empty summary
NoKeyInfo == <<"u6682", "u65E0", "u5173", "u952E", "u4FE1", "u606F">>

\* the longest summary returned as it is
SummaryLimit == 500
\* the characters kept in front of the ellipsis
SummaryKept == 497
Ellipsis == <<".", ".", ".">>

\* the summary_parts one entry adds
RECURSIVE EntryParts(_, _)
EntryParts(entry, k) ==
    IF k > Len(Facts) THEN <<>>
    ELSE (IF entry[Facts[k]] # None
          THEN <<Label(Facts[k]) \o entry[Facts[k]][1].name>>
          ELSE <<>>) \o EntryParts(entry, k + 1)

RECURSIVE SummaryParts(_)
SummaryParts(entries) ==
    IF entries = <<>> THEN <<>>
    ELSE EntryParts(Head(entries), 1) \o SummaryParts(Tail(entries))

\* sep.join(parts)
RECURSIVE join(_, _)
join(sep, parts) ==
    IF parts = <<>> THEN <<>>
    ELSE IF Len(parts) = 1 THEN parts[1]
    ELSE parts[1] \o sep \o join(sep, Tail(parts))

\* variant: a summary of exactly SummaryLimit characters is cut too
Truncate_at_limit(joined) ==
    IF Len(joined) >= SummaryLimit
    THEN SubSeq(joined, 1, SummaryKept) \o Ellipsis
    ELSE joined

\* "if len(summary) > 500: summary = summary[:497] + '...'"
Truncate(joined) ==
    IF Len(joined) > SummaryLimit
    THEN SubSeq(joined, 1, SummaryKept) \o Ellipsis
    ELSE joined

_summarize_key_info(kg) ==
    LET truncated == Truncate(join(<<";", " ">>, SummaryParts(kg.entries)))
    IN  IF truncated # <<>> THEN truncated ELSE NoKeyInfo

----------------------------------------------------------------------------
(* DocumentProcessor._create_efficient_prompt *)

\* The fixed texts of the template are one symbol each: the instruction with
\* the format instructions, up to the line announcing the document, and the two
\* fixed texts around the context.  The chunk and the digest are spelled out.
_create_efficient_prompt(text_chunk, context) ==
    LET base_prompt == <<"<task and format instructions>">> \o text_chunk
                          \o <<"\n", "\n">>
    IN  IF context # None /\ context[1] # <<>>
        THEN base_prompt \o <<"<context follows>">> \o context[1]
                         \o <<"<extract what is new>">>
        ELSE base_prompt

----------------------------------------------------------------------------
(* JsonOutputParser.parse                                                   *)
(*                                                                         *)
(* The reply of the model is a sequence of lexical units, and its text is  *)
(* their texts one after the other:                                        *)
(*   "{"  "}"  ","  "]"    the character                                   *)
(*   "entries:["           "entries": [                                    *)
(*   "foo:1"               "foo": 1                                        *)
(*   "[1]"                 [1]                                             *)
(*   "A"                   {"fault_type": {"name": "a"}}                   *)
(*   "B"                   {"cause": {"name": "b"},                        *)
(*                          "frequency": {"name": "c"}}                    *)
(*   "prose"               words that are no JSON and hold no brace        *)

EntryA == [NoFacts EXCEPT !.fault_type = Some([name |-> <<"a">>])]
EntryB == [NoFacts EXCEPT !.cause = Some([name |-> <<"b">>]),
                          !.frequency = Some([name |-> <<"c">>])]

\* the units whose text begins with "{", and those whose text ends with "}"
OpeningUnits == {"{", "A", "B"}
ClosingUnits == {"}", "A", "B"}

\* a decoded value: a list or a dict; of a dict its keys, the elements of the
\* list under the key entries, and the facts it gives when it is read as an
\* entry (a key that is no field of the entry is ignored)
JsonList == [type |-> "list", keys |-> {}, entries |-> <<>>, facts |-> NoFacts]
JsonDict(keys, entries, facts) ==
    [type |-> "dict", keys |-> keys, entries |-> entries, facts |-> facts]
NotDecoded == [ok |-> FALSE, next |-> 0, value |-> JsonList]

\* the JSON decoder from unit k of s on: a value, the members of an object
\* (behind "{"), the elements of the list of entries (behind "entries:[").
\* expect is "first" behind the opening unit, "item" behind a comma and
\* "comma" behind a member or an element; a key given twice keeps its last value
RECURSIVE DecodeValue(_, _), DecodeMembers(_, _, _, _), DecodeElements(_, _, _, _)
DecodeValue(s, k) ==
    IF k > Len(s) THEN NotDecoded
    ELSE CASE s[k] = "[1]" -> [ok |-> TRUE, next |-> k + 1, value |-> JsonList]
           [] s[k] = "A"   -> [ok |-> TRUE, next |-> k + 1,
                               value |-> JsonDict({"fault_type"}, <<>>, EntryA)]
           [] s[k] = "B"   -> [ok |-> TRUE, next |-> k + 1,
                               value |-> JsonDict({"cause", "frequency"}, <<>>, EntryB)]
           [] s[k] = "{"   -> DecodeMembers(s, k + 1, JsonDict({}, <<>>, NoFacts), "first")
           [] OTHER        -> NotDecoded

DecodeMembers(s, k, dict, expect) ==
    IF k > Len(s) THEN NotDecoded
    ELSE CASE s[k] = "}" /\ expect \in {"first", "comma"} ->
                [ok |-> TRUE, next |-> k + 1, value |-> dict]
           [] s[k] = "," /\ expect = "comma" ->
                DecodeMembers(s, k + 1, dict, "item")
           [] s[k] = "foo:1" /\ expect \in {"first", "item"} ->
                DecodeMembers(s, k + 1,
                              [dict EXCEPT !.keys = @ \cup {"foo"}], "comma")
           [] s[k] = "entries:[" /\ expect \in {"first", "item"} ->
                LET list == DecodeElements(s, k + 1, <<>>, "first")
                IN  IF ~list.ok THEN NotDecoded
                    ELSE DecodeMembers(s, list.next,
                                       [dict EXCEPT !.keys = @ \cup {"entries"},
                                                    !.entries = list.value],
                                       "comma")
           [] OTHER -> NotDecoded

DecodeElements(s, k, elements, expect) ==
    IF k > Len(s) THEN NotDecoded
    ELSE CASE s[k] = "]" /\ expect \in {"first", "comma"} ->
                [ok |-> TRUE, next |-> k + 1, value |-> elements]
           [] s[k] = "," /\ expect = "comma" ->
                DecodeElements(s, k + 1, elements, "item")
           [] s[k] \notin {"]", ","} /\ expect \in {"first", "item"} ->
                LET element == DecodeValue(s, k)
                IN  IF ~element.ok THEN NotDecoded
                    ELSE DecodeElements(s, element.next,
                                        Append(elements,
                                               [type  |-> element.value.type,
                                                facts |-> element.value.facts]),
                                        "comma")
           [] OTHER -> NotDecoded

\* json.loads: the decoded value when the whole text is one JSON value, or a
\* JSONDecodeError
json_loads(s) ==
    LET decoded == DecodeValue(s, 1)
    IN  IF decoded.ok /\ decoded.next = Len(s) + 1
        THEN [error |-> "none", type |-> decoded.value.type,
              keys |-> decoded.value.keys, entries |-> decoded.value.entries]
        ELSE [error |-> "JSONDecodeError", type |-> "none", keys |-> {},
              entries |-> <<>>]

\* self.pydantic_object(**data): the model, a TypeError when data is no
\* mapping, a ValidationError when the required field entries is missing or
\* an element of entries is no object
pydantic_object(data) ==
    IF data.type # "dict" THEN [error |-> "TypeError", entries |-> <<>>]
    ELSE IF "entries" \notin data.keys
    THEN [error |-> "ValidationError", entries |-> <<>>]
    ELSE IF \E n \in 1..Len(data.entries) : data.entries[n].type # "dict"
    THEN [error |-> "ValidationError", entries |-> <<>>]
    ELSE [error |-> "none",
          entries |-> [n \in 1..Len(data.entries) |-> data.entries[n].facts]]

\* re.search(r'\{.*\}', text, re.DOTALL): None, or the span from the first "{"
\* to the last "}" behind it
re_search_braces(s) ==
    LET open  == {k \in 1..Len(s) : s[k] \in OpeningUnits}
        close == {k \in 1..Len(s) : s[k] \in ClosingUnits}
    IN  IF open = {} \/ close = {} \/ Max(close) < Min(open) THEN None
        ELSE Some(SubSeq(s, Min(open), Max(close)))

\* parse(text): only a JSONDecodeError is caught; what pydantic_object raises
\* leaves parse
parse(s) ==
    LET direct == json_loads(s)
        match  == re_search_braces(s)
        inner  == json_loads(match[1])
    IN  IF direct.error = "none" THEN pydantic_object(direct)
        ELSE IF match # None /\ inner.error = "none" THEN pydantic_object(inner)
        ELSE [error |-> "none", entries |-> <<>>]

----------------------------------------------------------------------------
(* LLMClient *)

\* variant: the key is not looked at
LLMClient_init_unchecked(key) == "none"

\* LLMClient.__init__: without API_KEY it raises a ValueError
LLMClient_init(key) == IF ~key THEN "ValueError" ELSE "none"

\* LLMClient.extract_knowledge_graph: the reply is what self.model.invoke
\* does, an error raised or the content returned; whatever is raised in the
\* call or in parse is raised again as an Exception
extract_knowledge_graph(reply) ==
    IF reply.raised THEN [error |-> "Exception", entries |-> <<>>]
    ELSE LET kg == parse(reply.content)
         IN  IF kg.error # "none" THEN [error |-> "Exception", entries |-> <<>>]
             ELSE kg

----------------------------------------------------------------------------
(* DocumentProcessor._extract_knowledge_graph *)

\* The loop "for i, chunk in enumerate(chunks)" works on the state
\* st = [i, previous_context, kg_results, calls]; chunks are counted from 1.
\* calls is the record of what the client was asked: the chunk's index, the
\* prompt, and None when the call raised or the result it returned.
Called(st, prompt, result) ==
    Append(st.calls, [index |-> st.i, prompt |-> prompt, result |-> result])

\* variant: the digest is taken from the first result collected
OnSuccess_first_result(st, prompt, kg) ==
    [i                |-> st.i + 1,
     previous_context |-> Some(_summarize_key_info(Append(st.kg_results, kg)[1])),
     kg_results       |-> Append(st.kg_results, kg),
     calls            |-> Called(st, prompt, Some(kg))]

\* the try block behind the call: the result is appended and summarized
OnSuccess(st, prompt, kg) ==
    [i                |-> st.i + 1,
     previous_context |-> Some(_summarize_key_info(kg)),
     kg_results       |-> Append(st.kg_results, kg),
     calls            |-> Called(st, prompt, Some(kg))]

\* variant: an empty result stands in for the chunk that failed
OnFailure_placeholder(st, prompt) ==
    [i                |-> st.i + 1,
     previous_context |-> st.previous_context,
     kg_results       |-> Append(st.kg_results, [error |-> "none", entries |-> <<>>]),
     calls            |-> Called(st, prompt, None)]

\* variant: the context is forgotten when a chunk fails
OnFailure_reset(st, prompt) ==
    [i                |-> st.i + 1,
     previous_context |-> None,
     kg_results       |-> st.kg_results,
     calls            |-> Called(st, prompt, None)]

\* variant: the chunk that failed is tried again
OnFailure_retry(st, prompt) ==
    [i                |-> st.i,
     previous_context |-> st.previous_context,
     kg_results       |-> st.kg_results,
     calls            |-> Called(st, prompt, None)]

\* the except block: the error is printed and the loop continues
OnFailure(st, prompt) ==
    [i                |-> st.i + 1,
     previous_context |-> st.previous_context,
     kg_results       |-> st.kg_results,
     calls            |-> Called(st, prompt, None)]

\* one iteration of the loop
LoopBody(st, chunk, reply) ==
    LET prompt == _create_efficient_prompt(chunk, st.previous_context)
        kg     == extract_knowledge_graph(reply)
    IN  IF kg.error = "none" THEN OnSuccess(st, prompt, kg)
                             ELSE OnFailure(st, prompt)

----------------------------------------------------------------------------
(* DocumentProcessor.process_document *)

\* the extensions of the model, as Python strings
Ext_md   == <<".", "m", "d">>
Ext_txt  == <<".", "t", "x", "t">>
Ext_docx == <<".", "d", "o", "c", "x">>
Ext_pdf  == <<".", "p", "d", "f">>

\* DocumentProcessor.__init__: the dictionary self.parsers
InitialParsers ==
    [ext \in {Ext_md, Ext_txt, Ext_docx} |->
        CASE ext = Ext_md  -> "MarkdownParser"
          [] ext = Ext_txt -> "TextParser"
          [] OTHER         -> "WordParser"]

\* DocumentProcessor.add_parser: self.parsers[extension] = parser; the
\* extension is stored as it is given
add_parser(registered, extension, parser) ==
    [ext \in DOMAIN registered \cup {extension} |->
        IF ext = extension THEN parser ELSE registered[ext]]

\* str.lower(): the letters A..Z become a..z, every other character of an
\* ASCII string is kept
UpperCase == <<"A", "B", "C", "D", "E", "F", "G", "H", "I", "J", "K", "L", "M",
               "N", "O", "P", "Q", "R", "S", "T", "U", "V", "W", "X", "Y", "Z">>
LowerCase == <<"a", "b", "c", "d", "e", "f", "g", "h", "i", "j", "k", "l", "m",
               "n", "o", "p", "q", "r", "s", "t", "u", "v", "w", "x", "y", "z">>
lower(s) ==
    [k \in 1..Len(s) |->
        IF \E n \in 1..Len(UpperCase) : UpperCase[n] = s[k]
        THEN LowerCase[CHOOSE n \in 1..Len(UpperCase) : UpperCase[n] = s[k]]
        ELSE s[k]]

\* parser.parse(file_path): the text returned, or raised.  TextParser and
\* MarkdownParser read the file as UTF-8 text, which a Word package is not;
\* WordParser opens a Word package and joins the texts of its paragraphs with
\* "\n".  A file is readable when it can be opened and, for WordParser, the
\* library python-docx is installed.  A text file of the model holds its
\* paragraphs with an empty line between them.
parser_parse(parser, f) ==
    IF ~f.readable THEN [raised |-> TRUE, text |-> <<>>]
    ELSE IF parser = "WordParser"
    THEN IF f.format = "docx"
         THEN [raised |-> FALSE, text |-> join(<<"\n">>, f.paragraphs)]
         ELSE [raised |-> TRUE, text |-> <<>>]
    ELSE IF f.format = "text"
         THEN [raised |-> FALSE, text |-> join(<<"\n", "\n">>, f.paragraphs)]
         ELSE [raised |-> TRUE, text |-> <<>>]

\* variant: a file whose extension has no parser is read as text
InputError_any_extension(registered, f) ==
    IF ~f.exists THEN "FileNotFoundError"
    ELSE IF parser_parse(IF lower(f.ext) \in DOMAIN registered
                         THEN registered[lower(f.ext)]
                         ELSE "TextParser", f).raised
    THEN "Exception"
    ELSE "none"

\* the checks in front of the try block, and parser.parse inside it: the
\* exception process_document raises for the file, or "none"
InputError(registered, f) ==
    IF ~f.exists THEN "FileNotFoundError"
    ELSE IF lower(f.ext) \notin DOMAIN registered THEN "ValueError"
    ELSE IF parser_parse(registered[lower(f.ext)], f).raised THEN "Exception"
    ELSE "none"

----------------------------------------------------------------------------
(* Inputs *)

RECURSIVE SeqsUpTo(_, _)
SeqsUpTo(S, n) ==
    IF n = 0 THEN {<<>>}
    ELSE LET shorter == SeqsUpTo(S, n - 1)
         IN  shorter \cup {Append(q, x) : q \in {r \in shorter : Len(r) = n - 1}, x \in S}

\* texts given to _chunk_text: a few pieces, which make paragraphs below
\* ShortParagraph (60 characters), within a maximum (120, 121) and above it
Pieces == {Rep("a", 60), <<"\n", "\n">>, <<".">>, <<" ">>, <<"uFF1F">>}
ChunkTexts == {Concat(ps) : ps \in SeqsUpTo(Pieces, MaxPieces)}
ChunkMaxima == {100, 120, 121}

\* results given to _summarize_key_info: entries with one fact, whose name has
\* a length that puts one or two parts on both sides of SummaryLimit, the entry
\* with no fact and the entry with all six
FactSet == {Facts[k] : k \in 1..Len(Facts)}
OneFact(fact, n) == [NoFacts EXCEPT ![fact] = Some([name |-> Rep("x", n)])]
DigestEntries ==
    {OneFact(f, n) : f \in FactSet, n \in {0, 243, 244}}
      \cup {OneFact("fault_type", 494), OneFact("cause", 495), NoFacts,
            [f \in FactSet |-> Some([name |-> <<"y">>])]}
DigestResults == {[entries |-> es] : es \in SeqsUpTo(DigestEntries, MaxEntries)}

\* documents given to process_document: text files and Word packages of a few
\* paragraphs, files that cannot be read and paths where no file is
Paragraphs == {<<"a", "a">>, <<"b", "b">>}
DocumentParagraphs == SeqsUpTo(Paragraphs, MaxParagraphs)
Extensions == {<<".", "M", "D">>, <<".", "D", "o", "c", "x">>, Ext_pdf}
NoFile(ext) ==
    [exists |-> FALSE, ext |-> ext, format |-> "text", readable |-> FALSE,
     paragraphs |-> <<>>]
Files ==
    {NoFile(ext) : ext \in Extensions}
      \cup {[NoFile(ext) EXCEPT !.exists = TRUE, !.format = fmt] :
               ext \in Extensions, fmt \in {"text", "docx"}}
      \cup [exists : {TRUE}, ext : Extensions, format : {"text", "docx"},
            readable : {TRUE}, paragraphs : DocumentParagraphs]
DocumentMaxima == {2, 6}

\* the parsers add_parser is given
AddedParsers == {<<Ext_pdf, "TextParser">>, <<Ext_md, "WordParser">>}

\* what self.model.invoke does: it raises, or returns one of these contents
Contents ==
    { <<"{", "entries:[", "]", "}">>,
      <<"{", "entries:[", "A", "]", "}">>,
      <<"{", "entries:[", "A", ",", "B", "]", "}">>,
      <<"prose", "{", "entries:[", "B", "]", "}", "prose">>,
      <<"prose">>,
      <<"prose", "{", "prose", "}">>,
      <<"}", "prose", "{">>,
      <<"{", "foo:1", "}">>,
      <<"[1]">>,
      <<"entries:[", "A", "]">>,
      <<"{", "entries:[", "A", "]">>,
      <<"{", "entries:[", "[1]", "]", "}">> }
Replies == {[raised |-> TRUE, content |-> <<>>]}
             \cup {[raised |-> FALSE, content |-> c] : c \in Contents}

\* the values of the variables an operation does not use
IdleChunk  == text = <<>> /\ sentences = <<>>
IdleDigest == kg_data = [entries |-> <<>>] /\ summary = <<>>
IdlePipe   ==
    /\ parsers = InitialParsers
    /\ file = NoFile(<<>>)
    /\ api_key = FALSE
    /\ text_content = <<>>
    /\ i = 0
    /\ previous_context = None
    /\ kg_results = <<>>
    /\ calls = <<>>
    /\ response = [raised |-> FALSE, content |-> <<>>]
    /\ outcome = "none"

----------------------------------------------------------------------------
(* SpecChunk: _chunk_text applied to one text *)

InitChunk ==
    /\ pc = "chunk"
    /\ max_context_length \in ChunkMaxima
    /\ text \in ChunkTexts
    /\ sentences = <<>>
    /\ chunks = <<>>
    /\ IdleDigest
    /\ IdlePipe

ChunkText ==
    /\ pc = "chunk"
    /\ chunks' = _chunk_text(text, max_context_length)
    /\ pc' = "chunked"
    /\ UNCHANGED <<max_context_length, chunkVars, digestVars, pipeVars>>

NextChunk == ChunkText

SpecChunk == InitChunk /\ [][NextChunk]_vars

----------------------------------------------------------------------------
(* SpecSplit: _split_sentences applied to one segment *)

\* segments of a few characters: letters, a half-width and a full-width mark,
\* a blank and the ideographic space
SegmentCharacters == {"a", "b", ".", "uFF1F", " ", "u3000"}
Segments == SeqsUpTo(SegmentCharacters, MaxSegment)

InitSplit ==
    /\ pc = "split"
    /\ text \in Segments
    /\ sentences = <<>>
    /\ max_context_length = 3000
    /\ chunks = <<>>
    /\ IdleDigest
    /\ IdlePipe

SplitSentences ==
    /\ pc = "split"
    /\ sentences' = _split_sentences(text)
    /\ pc' = "sentences"
    /\ UNCHANGED <<max_context_length, chunks, text, digestVars, pipeVars>>

NextSplit == SplitSentences

SpecSplit == InitSplit /\ [][NextSplit]_vars

----------------------------------------------------------------------------
(* SpecDigest: _summarize_key_info applied to one result *)

InitDigest ==
    /\ pc = "summarize"
    /\ kg_data \in DigestResults
    /\ summary = <<>>
    /\ max_context_length = 3000
    /\ chunks = <<>>
    /\ IdleChunk
    /\ IdlePipe

Summarize ==
    /\ pc = "summarize"
    /\ summary' = _summarize_key_info(kg_data)
    /\ pc' = "summarized"
    /\ UNCHANGED <<max_context_length, chunks, kg_data, chunkVars, pipeVars>>

NextDigest == Summarize

SpecDigest == InitDigest /\ [][NextDigest]_vars

----------------------------------------------------------------------------
(* Spec: process_document on one document *)

Init ==
    /\ pc = "process_document"
    /\ max_context_length \in DocumentMaxima
    /\ parsers = InitialParsers
    /\ file \in Files
    /\ api_key \in BOOLEAN
    /\ text_content = <<>>
    /\ chunks = <<>>
    /\ i = 0
    /\ previous_context = None
    /\ kg_results = <<>>
    /\ calls = <<>>
    /\ response = [raised |-> FALSE, content |-> <<>>]
    /\ outcome = "running"
    /\ IdleChunk
    /\ IdleDigest

\* add_parser, called before process_document
AddParser ==
    /\ pc = "process_document"
    /\ \E added \in AddedParsers :
         parsers' = add_parser(parsers, added[1], added[2])
    /\ UNCHANGED <<pc, max_context_length, file, api_key, text_content, chunks,
                   i, previous_context, kg_results, calls, response, outcome,
                   chunkVars, digestVars>>

\* process_document up to the call of _extract_knowledge_graph: the checks,
\* parser.parse and _chunk_text
ProcessDocument ==
    /\ pc = "process_document"
    /\ IF InputError(parsers, file) # "none"
       THEN /\ pc' = "raised"
            /\ outcome' = InputError(parsers, file)
            /\ UNCHANGED <<text_content, chunks>>
       ELSE LET parser == parsers[lower(file.ext)]
            IN  /\ text_content' = parser_parse(parser, file).text
                /\ chunks' = _chunk_text(parser_parse(parser, file).text,
                                         max_context_length)
                /\ pc' = "construct"
                /\ UNCHANGED outcome
    /\ UNCHANGED <<max_context_length, parsers, file, api_key, i,
                   previous_context, kg_results, calls, response, chunkVars,
                   digestVars>>

\* _extract_knowledge_graph up to the loop: LLMClient() raises, and the empty
\* list is returned to process_document, which returns its dictionary; or the
\* loop begins
ConstructClient ==
    /\ pc = "construct"
    /\ IF LLMClient_init(api_key) # "none"
       THEN /\ pc' = "returned"
            /\ outcome' = "returned"
            /\ UNCHANGED i
       ELSE /\ pc' = "loop"
            /\ i' = 1
            /\ UNCHANGED outcome
    /\ kg_results' = <<>>
    /\ previous_context' = None
    /\ UNCHANGED <<max_context_length, parsers, file, api_key, text_content,
                   chunks, calls, response, chunkVars, digestVars>>

\* one iteration of the loop, with what the model does on this call
ExtractChunk ==
    /\ pc = "loop"
    /\ i <= Len(chunks)
    /\ \E reply \in Replies :
         LET st == LoopBody([i |-> i, previous_context |-> previous_context,
                             kg_results |-> kg_results, calls |-> calls],
                            chunks[i], reply)
         IN  /\ i' = st.i
             /\ previous_context' = st.previous_context
             /\ kg_results' = st.kg_results
             /\ calls' = st.calls
             /\ response' = reply
    /\ UNCHANGED <<pc, max_context_length, parsers, file, api_key, text_content,
                   chunks, outcome, chunkVars, digestVars>>

\* the loop is over: kg_results is returned, and process_document returns
ReturnResults ==
    /\ pc = "loop"
    /\ i > Len(chunks)
    /\ pc' = "returned"
    /\ outcome' = "returned"
    /\ UNCHANGED <<max_context_length, parsers, file, api_key, text_content,
                   chunks, i, previous_context, kg_results, calls, response,
                   chunkVars, digestVars>>

Next ==
    AddParser \/ ProcessDocument \/ ConstructClient \/ ExtractChunk \/ ReturnResults

Spec == Init /\ [][Next]_vars

----------------------------------------------------------------------------
(* Properties of _extract_knowledge_graph and process_document (Spec) *)

EmptyResult == [error |-> "none", entries |-> <<>>]

\* what a prompt carries as context: None, or the text between the two fixed
\* texts of the context block
PromptContext(prompt) ==
    LET from == {k \in 1..Len(prompt) : prompt[k] = "<context follows>"}
        to   == {k \in 1..Len(prompt) : prompt[k] = "<extract what is new>"}
    IN  IF from = {} THEN None
        ELSE Some(SubSeq(prompt, Min(from) + 1, Max(to) - 1))

\* the chunk a prompt carries
PromptChunk(prompt) ==
    LET to == {k \in 1..Len(prompt) : prompt[k] = "<context follows>"}
        last == IF to = {} THEN Len(prompt) ELSE Min(to) - 1
    IN  SubSeq(prompt, 2, last - 2)

\* the positions in calls of the calls that raised, and of those that returned
FailedCalls    == {k \in 1..Len(calls) : calls[k].result = None}
SucceededCalls == {k \in 1..Len(calls) : calls[k].result # None}

\* the results of the calls that returned, in the order of the calls
RECURSIVE ResultsFrom(_)
ResultsFrom(k) ==
    IF k > Len(calls) THEN <<>>
    ELSE (IF calls[k].result # None THEN <<calls[k].result[1]>> ELSE <<>>)
           \o ResultsFrom(k + 1)

\* the loop has run to its end with a client that was constructed
LoopReturned == pc = "returned" /\ api_key

\* C1: when the call fails for exactly one chunk k of N, the sequence returned
\* has N-1 results: those of the other chunks, in the order of the chunks
C1_FaultIsolation ==
    (LoopReturned /\ Cardinality(FailedCalls) = 1) =>
        LET k == CHOOSE f \in FailedCalls : TRUE
        IN  /\ Len(calls) = Len(chunks)
            /\ Len(kg_results) = Len(chunks) - 1
            /\ \A j \in 1..Len(chunks) :
                 /\ j < k => kg_results[j] = calls[j].result[1]
                 /\ j > k => kg_results[j - 1] = calls[j].result[1]

C1_Witness ==
    /\ LoopReturned
    /\ Len(chunks) = 3
    /\ FailedCalls = {2}
    /\ Len(kg_results) = 2
    /\ kg_results[1] # kg_results[2]

\* C2, as claimed: behind the first chunk, a prompt carries the digest of the
\* result of the chunk just before it whenever that chunk has a result, and
\* carries no digest of any other chunk
C2_DigestOfPreviousChunk ==
    \A k \in 2..Len(calls) :
        LET context == PromptContext(calls[k].prompt)
            before  == calls[k - 1].result
        IN  /\ before # None => context = Some(_summarize_key_info(before[1]))
            /\ context # None =>
                 /\ before # None
                 /\ context = Some(_summarize_key_info(before[1]))

\* the digest the loop holds when call k is made: that of the last call before
\* k that returned a result, None when there is none
LastDigestBefore(k) ==
    LET earlier == {j \in SucceededCalls : j < k}
    IN  IF earlier = {} THEN None
        ELSE Some(_summarize_key_info(calls[Max(earlier)].result[1]))

\* C2, amended: behind the first chunk, a prompt carries the digest of the
\* result of the nearest earlier chunk whose call succeeded (the chunk just
\* before it when that one succeeded), and no digest when none succeeded
C2_DigestOfLastSuccess ==
    \A k \in 2..Len(calls) :
        /\ calls[k].index = calls[k - 1].index + 1
        /\ PromptContext(calls[k].prompt) = LastDigestBefore(k)
        /\ calls[k - 1].result # None =>
             PromptContext(calls[k].prompt)
               = Some(_summarize_key_info(calls[k - 1].result[1]))

C2_Witness ==
    /\ Len(calls) = 3
    /\ calls[1].result # None
    /\ calls[2].result = None
    /\ PromptContext(calls[3].prompt) = Some(_summarize_key_info(calls[1].result[1]))
    /\ PromptContext(calls[2].prompt) # PromptContext(calls[1].prompt)

\* C5: without an API key no prompt is built and no call is made, and the run
\* returns the empty sequence
C5_ConstructionFailure ==
    ~api_key =>
        /\ calls = <<>>
        /\ pc # "loop"
        /\ pc = "returned" => kg_results = <<>>

C5_Witness ==
    /\ ~api_key
    /\ pc = "returned"
    /\ Len(chunks) = 3
    /\ kg_results = <<>>

\* no file; no parser registered for the extension in lower case; a file the
\* registered parser cannot read, or cannot read as what it is
MissingDocument     == ~file.exists
UnsupportedDocument == \A ext \in DOMAIN parsers : ext # lower(file.ext)
UnreadableDocument  ==
    \/ ~file.readable
    \/ \E ext \in DOMAIN parsers :
         /\ ext = lower(file.ext)
         /\ (parsers[ext] = "WordParser") # (file.format = "docx")
BadDocument == MissingDocument \/ UnsupportedDocument \/ UnreadableDocument

\* C6, as claimed: with no client, or with a document that is missing,
\* unsupported or unreadable, process_document never returns a normal result
C6_FailuresAreRaised ==
    (~api_key \/ BadDocument) => outcome # "returned"

\* C6, amended: a document that is missing, unsupported or unreadable makes
\* process_document raise; a client that cannot be constructed does not: for a
\* good document process_document then returns a normal result whose
\* knowledge graph is empty
C6_InputErrorsAreRaised ==
    /\ BadDocument =>
         /\ pc \in {"process_document", "raised"}
         /\ outcome # "returned"
         /\ pc = "raised" =>
              outcome = IF MissingDocument THEN "FileNotFoundError"
                        ELSE IF UnsupportedDocument THEN "ValueError"
                        ELSE "Exception"
    /\ ~BadDocument => pc # "raised"
    /\ (~BadDocument /\ ~api_key /\ pc \notin {"process_document", "construct"}) =>
         /\ pc = "returned"
         /\ outcome = "returned"
         /\ kg_results = <<>>

C6_Witness ==
    /\ pc = "raised"
    /\ outcome = "ValueError"
    /\ file.exists
    /\ file.readable
    /\ file.ext = Ext_pdf
    /\ Ext_md \in DOMAIN parsers

\* what the two attempts of parse decode, None when neither decodes
Decoded(content) ==
    LET direct == json_loads(content)
        match  == re_search_braces(content)
    IN  IF direct.error = "none" THEN Some(direct)
        ELSE IF match # None /\ json_loads(match[1]).error = "none"
        THEN Some(json_loads(match[1]))
        ELSE None

\* the reply cannot be parsed into the expected structure: nothing decodes, or
\* what decodes is no object with the key entries
CannotBeParsed(content) ==
    \/ Decoded(content) = None
    \/ Decoded(content)[1].type # "dict"
    \/ "entries" \notin Decoded(content)[1].keys
    \/ \E n \in 1..Len(Decoded(content)[1].entries) :
         Decoded(content)[1].entries[n].type # "dict"

\* C7: a reply that cannot be parsed into the expected structure counts as a
\* success with a result of no entries, which the loop appends
C7_ParseTolerance ==
    (Len(calls) > 0 /\ ~response.raised /\ CannotBeParsed(response.content)) =>
        /\ calls[Len(calls)].result = Some(EmptyResult)
        /\ kg_results # <<>>
        /\ kg_results[Len(kg_results)] = EmptyResult

\* C8: a call that fails leaves the digest as it was: the next prompt carries
\* the context the failed call's prompt carried, and is for the next chunk
C8_FailureKeepsDigest ==
    \A k \in FailedCalls :
        /\ k < Len(calls) =>
             /\ PromptContext(calls[k + 1].prompt) = PromptContext(calls[k].prompt)
             /\ calls[k + 1].index = calls[k].index + 1
        /\ k = Len(calls) =>
             /\ previous_context = PromptContext(calls[k].prompt)
             /\ i = calls[k].index + 1
        /\ (pc = "returned" /\ calls[k].index < Len(chunks)) => k < Len(calls)

C8_Witness ==
    /\ Len(calls) = 3
    /\ calls[1].result # None
    /\ calls[2].result = None
    /\ PromptContext(calls[2].prompt) # None
    /\ PromptContext(calls[3].prompt) = PromptContext(calls[2].prompt)

\* C9: the client is called once for each chunk, in the order of the chunks,
\* the loop always goes on to the end, and the sequence returned holds the
\* results of the calls that succeeded, in the order of the calls
C9_OneCallPerChunkInOrder ==
    api_key =>
        /\ \A k \in 1..Len(calls) :
             /\ calls[k].index = k
             /\ k <= Len(chunks)
             /\ PromptChunk(calls[k].prompt) = chunks[k]
        /\ kg_results = ResultsFrom(1)
        /\ pc = "loop" =>
             /\ i = Len(calls) + 1
             /\ ENABLED (ExtractChunk \/ ReturnResults)
        /\ pc = "returned" => Len(calls) = Len(chunks)

C9_Witness ==
    /\ LoopReturned
    /\ Len(chunks) = 3
    /\ FailedCalls = {1, 3}
    /\ Len(kg_results) = 1

----------------------------------------------------------------------------
(* Properties of _summarize_key_info (SpecDigest) *)

Joined == join(<<";", " ">>, SummaryParts(kg_data.entries))

\* C10: the digest has at most 500 characters; a joined string of more than
\* 500 is cut to its first 497 characters and "..."; one of exactly 500 is
\* returned as it is
C10_DigestBound ==
    pc = "summarized" =>
        /\ Len(summary) <= 500
        /\ Len(Joined) > 500 => summary = SubSeq(Joined, 1, 497) \o <<".", ".", ".">>
        /\ Len(Joined) = 500 => summary = Joined

C10_Witness ==
    /\ pc = "summarized"
    /\ Len(Joined) > 500
    /\ Len(summary) = 500
    /\ SubSeq(summary, 498, 500) = <<".", ".", ".">>
    /\ Len(kg_data.entries) = 2

\* a joined string of exactly 500 characters has been summarized
C10_ExactLimitReached ==
    /\ pc = "summarized"
    /\ Len(Joined) = 500
    /\ summary = Joined

----------------------------------------------------------------------------
(* Properties of _chunk_text (SpecChunk) *)

NonWhitespace(s) == SelectSeq(s, LAMBDA c : c \notin Whitespace)

\* the sentences _split_sentences returns for the oversized paragraphs of the text
OversizedSentences ==
    LET paragraphs == split(text, <<"\n", "\n">>)
        oversized  == {p \in {paragraphs[k] : k \in 1..Len(paragraphs)} :
                          Len(p) >= 100 /\ Len(p) > max_context_length}
    IN  UNION {{_split_sentences(p)[n] : n \in 1..Len(_split_sentences(p))} :
                  p \in oversized}

\* C3: every chunk is within the maximum, unless it is one single sentence
\* that is itself longer than the maximum
C3_SizeBound ==
    pc = "chunked" =>
        \A n \in 1..Len(chunks) :
            \/ Len(chunks[n]) <= max_context_length
            \/ chunks[n] \in OversizedSentences

\* C4: the non-whitespace characters of the chunks, in order, are those of
\* the text
C4_Reconstruction ==
    pc = "chunked" => NonWhitespace(Concat(chunks)) = NonWhitespace(text)

\* C11: a text no longer than the maximum, the empty text and a text of
\* exactly the maximum among them, is returned as the only chunk, unchanged
C11_ShortCircuit ==
    (pc = "chunked" /\ Len(text) <= max_context_length) => chunks = <<text>>

\* a text of exactly the maximum that stripping would change
C11_Witness ==
    /\ pc = "chunked"
    /\ Len(text) = max_context_length
    /\ text[1] \in Whitespace
    /\ chunks = <<text>>

\* the empty text has been chunked
C11_EmptyTextReached ==
    /\ pc = "chunked"
    /\ text = <<>>
    /\ chunks = <<<<>>>>

----------------------------------------------------------------------------
(* Properties of _split_sentences (SpecSplit) *)

Blank(s) == \A k \in 1..Len(s) : s[k] \in Whitespace
EndsWithMark(s) == s # <<>> /\ s[Len(s)] \in {".", "!", "?", "u3002", "uFF01", "uFF1F"}

\* the positions of the marks of the text, and the positions where its pieces
\* end: before each mark, and behind the last character
MarksOfText == {k \in 1..Len(text) : text[k] \in {".", "!", "?", "u3002", "uFF01", "uFF1F"}}
PieceEnds   == MarksOfText \cup {Len(text) + 1}

\* the piece that ends at e, and the sentence it makes: the piece without the
\* whitespace around it, and the mark at e when there is one
PieceBefore(e) ==
    SubSeq(text, 1 + Max({m \in MarksOfText : m < e} \cup {0}), e - 1)
SentenceBefore(e) ==
    strip(PieceBefore(e)) \o (IF e <= Len(text) THEN <<text[e]>> ELSE <<>>)

\* the ends of the pieces that are not blank, and the n-th of them
ContentEnds == {e \in PieceEnds : ~Blank(PieceBefore(e))}
NthContentEnd(n) ==
    CHOOSE e \in ContentEnds : Cardinality({d \in ContentEnds : d < e}) = n - 1

\* C12, as claimed: of a segment with a mark every sentence returned ends with
\* a mark and none is blank; a segment without a mark is returned whole, as
\* the only sentence
C12_TerminatorsPreserved ==
    pc = "sentences" =>
        IF MarksOfText # {}
        THEN \A n \in 1..Len(sentences) :
                 ~Blank(sentences[n]) /\ EndsWithMark(sentences[n])
        ELSE sentences = <<text>>

\* C12, amended: the sentences returned are the pieces between the marks that
\* are not blank, in order, each without the whitespace around it and, when a
\* mark follows the piece in the source, ending with that mark; the piece
\* behind the last mark has none.  When every piece is blank the segment is
\* returned whole as the only sentence; a segment without a mark that is not
\* blank is returned as the only sentence, without the whitespace around it
C12_SentencesOfPieces ==
    pc = "sentences" =>
        /\ ContentEnds = {} => sentences = <<text>>
        /\ ContentEnds # {} =>
             /\ Len(sentences) = Cardinality(ContentEnds)
             /\ \A n \in 1..Len(sentences) :
                  /\ sentences[n] = SentenceBefore(NthContentEnd(n))
                  /\ ~Blank(sentences[n])
                  /\ NthContentEnd(n) <= Len(text) =>
                       /\ EndsWithMark(sentences[n])
                       /\ sentences[n][Len(sentences[n])] = text[NthContentEnd(n)]
        /\ (MarksOfText = {} /\ ~Blank(text)) => sentences = <<strip(text)>>

\* two marks, a blank piece dropped, and text behind the last mark
C12_Witness ==
    /\ pc = "sentences"
    /\ Cardinality(MarksOfText) = 2
    /\ Len(sentences) = 2
    /\ EndsWithMark(sentences[1])
    /\ sentences[1][Len(sentences[1])] = "uFF1F"
    /\ ~EndsWithMark(sentences[2])
    /\ text[1] = " "

----------------------------------------------------------------------------
\* C13: of a text longer than the maximum every chunk returned holds a
\* character that is not whitespace; a buffer of separators and empty
\* paragraphs only is never flushed as a chunk
C13_NoEmptyChunk ==
    (pc = "chunked" /\ Len(text) > max_context_length) =>
        \A n \in 1..Len(chunks) : NonWhitespace(chunks[n]) # <<>>

====
